---- MODULE Spec2Model ----
(***************************************************************************)
(* Model of the generic Result[S] container of go-result (result.go).      *)
(*                                                                         *)
(* A Result is the struct {success S; failure error}.  The constructors    *)
(* and operators of result.go are pure operators below, computed branch by *)
(* branch as the Go code computes them.  The state machine builds call     *)
(* chains such as Success(v).Then(f).ThenWith(g): `chain` holds the Result *)
(* returned by every call of the current chain, `call` the last call and   *)
(* its arguments, `invoked` the log of a call-counting stub wrapped around *)
(* the function argument of the last call.                                 *)
(***************************************************************************)
EXTENDS Naturals, Sequences, FiniteSets

VARIABLES chain, call, invoked

vars == <<chain, call, invoked>>

(* ---- bounds ---- *)
MaxVal == 1      \* payloads of a success type are 0..MaxVal
MaxErr == 2      \* the non-nil errors are 1..MaxErr
MaxChain == 3    \* operators applied after the constructor of a chain

(* ---- values, errors, types ---- *)

\* The nil error: the zero value of the `failure error` field.
nil == 0

\* The non-nil error values; an error is identified by its number.
Errors == 1..MaxErr

\* The types the type parameters S and NS are instantiated with (the tests
\* use int and string).
Types == {"int", "string"}

\* The values of type ty; a value carries its type.
Values(ty) == [ty : {ty}, v : 0..MaxVal]

\* The zero value of type ty (what an unset `success S` field holds).
Zero(ty) == [ty |-> ty, v |-> 0]

\* The success type S of a Result[S].
TypeOf(r) == r.success.ty

(* ---- result.go ---- *)

\* Success that forgets to store the value.
Success_dropsValue(value) == [success |-> Zero(value.ty), failure |-> nil]

\* func Success[S any](value S) Result[S]
Success(value) == [success |-> value, failure |-> nil]

\* Failure that puts an error of its own in the place of a nil one.
Failure_replacesNil(S, err) ==
    [success |-> Zero(S), failure |-> IF err = nil THEN 1 ELSE err]

\* Failure that forgets to store the error.
Failure_dropsErr(S, err) == [success |-> Zero(S), failure |-> nil]

\* func Failure[S any](err error) Result[S]
Failure(S, err) == [success |-> Zero(S), failure |-> err]

\* IsSuccess with the comparison inverted.
IsSuccess_inverted(r) == r.failure # nil

\* func (r Result[S]) IsSuccess() bool
IsSuccess(r) == r.failure = nil

\* func (r Result[S]) IsFailure() bool
IsFailure(r) == r.failure # nil

\* func (r Result[S]) GetSuccess() S
GetSuccess(r) == r.success

\* func (r Result[S]) GetFailure() error
GetFailure(r) == r.failure

\* GetSuccessOrElse that returns the held value in either state.
GetSuccessOrElse_ignoresDefault(r, defaultValue) == r.success

\* func (r Result[S]) GetSuccessOrElse(defaultValue S) S
GetSuccessOrElse(r, defaultValue) ==
    IF IsSuccess(r) THEN r.success
    ELSE defaultValue

\* func (r Result[S]) GetSuccessOr(defaultValue S) S
\* (the same method under the name an earlier revision of result.go gave it)
GetSuccessOr(r, defaultValue) ==
    IF IsSuccess(r) THEN r.success
    ELSE defaultValue

\* Match whose onFailure call is not under the else.
Match_noElse(r) ==
    (IF IsSuccess(r) THEN <<[cb |-> "onSuccess", arg |-> r.success]>>
     ELSE <<>>)
    \o <<[cb |-> "onFailure", arg |-> r.failure]>>

\* func (r Result[S]) Match(onSuccess func(S), onFailure func(error))
\* Returns the callbacks it invoked, each with the argument it was given.
Match(r) ==
    IF IsSuccess(r) THEN <<[cb |-> "onSuccess", arg |-> r.success]>>
    ELSE <<[cb |-> "onFailure", arg |-> r.failure]>>

\* Try that keeps the value next to the error.
Try_keepsValue(value, err) ==
    IF err # nil THEN [success |-> value, failure |-> err]
    ELSE Success(value)

\* Try with the error test inverted.
Try_inverted(value, err) ==
    IF err = nil THEN Failure(value.ty, err)
    ELSE Success(value)

\* func Try[S any](value S, err error) Result[S]
Try(value, err) ==
    IF err # nil THEN Failure(value.ty, err)
    ELSE Success(value)

\* ThenTry without the check of the receiver.
ThenTry_noGuard(r, value, err) ==
    IF err # nil THEN Failure(TypeOf(r), err)
    ELSE Success(value)

\* ThenTry that hands back the receiver when err is nil.
ThenTry_keepsOld(r, value, err) ==
    IF IsFailure(r) THEN r
    ELSE IF err # nil THEN Failure(TypeOf(r), err)
    ELSE r

\* func (r Result[S]) ThenTry(value S, err error) Result[S]
ThenTry(r, value, err) ==
    IF IsFailure(r) THEN r
    ELSE IF err # nil THEN Failure(TypeOf(r), err)
    ELSE Success(value)

\* One invocation of the function argument f on x, as a call-counting stub
\* records it.
Invoke(f, x) == [arg |-> x, out |-> f[x]]

\* Transform without the check of the receiver.
Transform_noGuard(r, NS, f) ==
    LET c == Invoke(f, GetSuccess(r))
    IN [ret |-> Success(c.out), invoked |-> <<c>>]

\* func Transform[S, NS any](r Result[S], f func(S) NS) Result[NS]
\* Returns the Result and the invocations of f made on the way.
Transform(r, NS, f) ==
    IF IsFailure(r)
    THEN [ret |-> [success |-> Zero(NS), failure |-> r.failure],
          invoked |-> <<>>]
    ELSE LET c == Invoke(f, GetSuccess(r))
         IN [ret |-> Success(c.out), invoked |-> <<c>>]

\* Then that applies f to its own output once more.
Then_appliesTwice(r, f) ==
    IF IsFailure(r)
    THEN [ret |-> [success |-> Zero(TypeOf(r)), failure |-> r.failure],
          invoked |-> <<>>]
    ELSE LET c == Invoke(f, GetSuccess(r))
             d == Invoke(f, c.out)
         IN [ret |-> Success(d.out), invoked |-> <<c, d>>]

\* Then with the state test inverted.
Then_inverted(r, f) ==
    IF IsSuccess(r)
    THEN [ret |-> [success |-> Zero(TypeOf(r)), failure |-> r.failure],
          invoked |-> <<>>]
    ELSE LET c == Invoke(f, GetSuccess(r))
         IN [ret |-> Success(c.out), invoked |-> <<c>>]

\* Then that re-wraps the held value without applying f.
Then_skipsF(r, f) ==
    IF IsFailure(r)
    THEN [ret |-> [success |-> Zero(TypeOf(r)), failure |-> r.failure],
          invoked |-> <<>>]
    ELSE [ret |-> Success(GetSuccess(r)), invoked |-> <<>>]

\* func (r Result[S]) Then(f func(S) S) Result[S]
Then(r, f) ==
    IF IsFailure(r)
    THEN [ret |-> [success |-> Zero(TypeOf(r)), failure |-> r.failure],
          invoked |-> <<>>]
    ELSE LET c == Invoke(f, GetSuccess(r))
         IN [ret |-> Success(c.out), invoked |-> <<c>>]

\* TransformWith whose failure branch drops the error.
TransformWith_dropsErr(r, NS, f) ==
    IF IsFailure(r)
    THEN [ret |-> [success |-> Zero(NS), failure |-> nil],
          invoked |-> <<>>]
    ELSE LET c == Invoke(f, GetSuccess(r))
         IN [ret |-> c.out, invoked |-> <<c>>]

\* func TransformWith[S, NS any](r Result[S], f func(S) Result[NS]) Result[NS]
TransformWith(r, NS, f) ==
    IF IsFailure(r)
    THEN [ret |-> [success |-> Zero(NS), failure |-> r.failure],
          invoked |-> <<>>]
    ELSE LET c == Invoke(f, GetSuccess(r))
         IN [ret |-> c.out, invoked |-> <<c>>]

\* ThenWith that wraps the value of f's Result in a new Success.
ThenWith_rewraps(r, f) ==
    IF IsFailure(r)
    THEN [ret |-> r, invoked |-> <<>>]
    ELSE LET c == Invoke(f, GetSuccess(r))
         IN [ret |-> Success(GetSuccess(c.out)), invoked |-> <<c>>]

\* func (r Result[S]) ThenWith(f func(S) Result[S]) Result[S]
ThenWith(r, f) ==
    IF IsFailure(r)
    THEN [ret |-> r, invoked |-> <<>>]
    ELSE LET c == Invoke(f, GetSuccess(r))
         IN [ret |-> c.out, invoked |-> <<c>>]

(* ---- callers ---- *)

\* The Results a caller-supplied func(S) Result[NS] can return: it lives
\* outside the package, so it builds them with Success and Failure.
ResultOf(NS) ==
    {Success(w) : w \in Values(NS)} \cup {Failure(NS, e) : e \in Errors}

\* A callee that takes its Result through a pointer and updates it in place.
AfterCall_inPlace(r, out) == out

\* The caller's Result r after a call on it that returned out.  Every method
\* and function of the package takes its Result by value
\* (`func (r Result[S]) ...`, `r Result[S]`) and none assigns to a field of
\* r: the callee works on a copy, and the caller still holds what it passed.
AfterCall(r, out) == r

\* The chain c after a call on its last Result that returned the Result out.
Extend(c, out) ==
    Append([c EXCEPT ![Len(c)] = AfterCall(c[Len(c)], out)], out)

\* The chain c after a call on its last Result that returned no Result.
Keep(c) == [c EXCEPT ![Len(c)] = AfterCall(c[Len(c)], c[Len(c)])]

\* The Result the last call returned, and the one it was called on.
ret == chain[Len(chain)]
recv == chain[Len(chain) - 1]

\* A declared, unassigned Result[S]: `var r Result[S]`.
Init ==
    /\ chain \in {<<[success |-> Zero(ty), failure |-> nil]>> : ty \in Types}
    /\ call = [op |-> "var"]
    /\ invoked = <<>>

\* r := Success(value) starts a chain.
CallSuccess ==
    \E ty \in Types : \E value \in Values(ty) :
        /\ chain' = <<Success(value)>>
        /\ call' = [op |-> "Success", value |-> value]
        /\ invoked' = <<>>

\* r := Failure[S](err) starts a chain; nothing stops a caller passing nil.
CallFailure ==
    \E ty \in Types : \E err \in Errors \cup {nil} :
        /\ chain' = <<Failure(ty, err)>>
        /\ call' = [op |-> "Failure", ty |-> ty, err |-> err]
        /\ invoked' = <<>>

\* r := Try(value, err) starts a chain.
CallTry ==
    \E ty \in Types : \E value \in Values(ty) : \E err \in Errors \cup {nil} :
        /\ chain' = <<Try(value, err)>>
        /\ call' = [op |-> "Try", value |-> value, err |-> err]
        /\ invoked' = <<>>

\* r.ThenTry(value, err)
CallThenTry ==
    /\ Len(chain) <= MaxChain
    /\ \E value \in Values(TypeOf(ret)) : \E err \in Errors \cup {nil} :
        /\ chain' = Extend(chain, ThenTry(ret, value, err))
        /\ call' = [op |-> "ThenTry", value |-> value, err |-> err]
        /\ invoked' = <<>>

\* Transform(r, f)
CallTransform ==
    /\ Len(chain) <= MaxChain
    /\ \E NS \in Types : \E f \in [Values(TypeOf(ret)) -> Values(NS)] :
        LET res == Transform(ret, NS, f)
        IN /\ chain' = Extend(chain, res.ret)
           /\ call' = [op |-> "Transform", ty |-> NS]
           /\ invoked' = res.invoked

\* r.Then(f)
CallThen ==
    /\ Len(chain) <= MaxChain
    /\ \E f \in [Values(TypeOf(ret)) -> Values(TypeOf(ret))] :
        LET res == Then(ret, f)
        IN /\ chain' = Extend(chain, res.ret)
           /\ call' = [op |-> "Then"]
           /\ invoked' = res.invoked

\* TransformWith(r, f)
CallTransformWith ==
    /\ Len(chain) <= MaxChain
    /\ \E NS \in Types : \E f \in [Values(TypeOf(ret)) -> ResultOf(NS)] :
        LET res == TransformWith(ret, NS, f)
        IN /\ chain' = Extend(chain, res.ret)
           /\ call' = [op |-> "TransformWith", ty |-> NS]
           /\ invoked' = res.invoked

\* r.ThenWith(f)
CallThenWith ==
    /\ Len(chain) <= MaxChain
    /\ \E f \in [Values(TypeOf(ret)) -> ResultOf(TypeOf(ret))] :
        LET res == ThenWith(ret, f)
        IN /\ chain' = Extend(chain, res.ret)
           /\ call' = [op |-> "ThenWith"]
           /\ invoked' = res.invoked

\* The chain and the invocation log st after n further calls .Then(f).
RECURSIVE ThenTimes(_, _, _)
ThenTimes(st, f, n) ==
    IF n = 0 THEN st
    ELSE LET res == Then(st.chain[Len(st.chain)], f)
         IN ThenTimes([chain |-> Extend(st.chain, res.ret),
                       invoked |-> st.invoked \o res.invoked], f, n - 1)

\* r := Success(value).Then(f).Then(g), one expression initialising a newly
\* declared r, as in the example program.  The step sets every variable, so
\* taking it from the declaration only loses no state.
CallThenThen ==
    /\ call.op = "var"
    /\ 2 <= MaxChain
    /\ \E ty \in Types : \E value \in Values(ty) :
       \E f \in [Values(ty) -> Values(ty)] :
       \E g \in [Values(ty) -> Values(ty)] :
        LET a == Then(Success(value), f)
            b == Then(a.ret, g)
        IN /\ chain' = Extend(Extend(<<Success(value)>>, a.ret), b.ret)
           /\ call' = [op |-> "ThenThen", value |-> value, f |-> f, g |-> g]
           /\ invoked' = a.invoked \o b.invoked

\* r := Success(value).Then(f)...Then(f), the same f n times, initialising
\* a newly declared r.
CallThenTimes ==
    /\ call.op = "var"
    /\ \E ty \in Types : \E value \in Values(ty) :
       \E f \in [Values(ty) -> Values(ty)] : \E n \in 1..MaxChain :
        LET st == ThenTimes([chain |-> <<Success(value)>>, invoked |-> <<>>],
                            f, n)
        IN /\ chain' = st.chain
           /\ call' = [op |-> "ThenTimes", value |-> value, f |-> f, n |-> n]
           /\ invoked' = st.invoked

\* r.IsSuccess()
CallIsSuccess ==
    /\ call' = [op |-> "IsSuccess", returned |-> IsSuccess(ret)]
    /\ invoked' = <<>>
    /\ chain' = Keep(chain)

\* r.IsFailure()
CallIsFailure ==
    /\ call' = [op |-> "IsFailure", returned |-> IsFailure(ret)]
    /\ invoked' = <<>>
    /\ chain' = Keep(chain)

\* r.GetSuccess()
CallGetSuccess ==
    /\ call' = [op |-> "GetSuccess", returned |-> GetSuccess(ret)]
    /\ invoked' = <<>>
    /\ chain' = Keep(chain)

\* r.GetFailure()
CallGetFailure ==
    /\ call' = [op |-> "GetFailure", returned |-> GetFailure(ret)]
    /\ invoked' = <<>>
    /\ chain' = Keep(chain)

\* r.GetSuccessOrElse(defaultValue)
CallGetSuccessOrElse ==
    \E defaultValue \in Values(TypeOf(ret)) :
        /\ call' = [op |-> "GetSuccessOrElse", default |-> defaultValue,
                    returned |-> GetSuccessOrElse(ret, defaultValue)]
        /\ invoked' = <<>>
        /\ chain' = Keep(chain)

\* r.GetSuccessOr(defaultValue)
CallGetSuccessOr ==
    \E defaultValue \in Values(TypeOf(ret)) :
        /\ call' = [op |-> "GetSuccessOr", default |-> defaultValue,
                    returned |-> GetSuccessOr(ret, defaultValue)]
        /\ invoked' = <<>>
        /\ chain' = Keep(chain)

\* r.Match(onSuccess, onFailure)
CallMatch ==
    /\ call' = [op |-> "Match"]
    /\ invoked' = Match(ret)
    /\ chain' = Keep(chain)

Next ==
    \/ CallSuccess
    \/ CallFailure
    \/ CallTry
    \/ CallThenTry
    \/ CallTransform
    \/ CallThen
    \/ CallTransformWith
    \/ CallThenWith
    \/ CallIsSuccess
    \/ CallIsFailure
    \/ CallGetSuccess
    \/ CallGetFailure
    \/ CallGetSuccessOrElse
    \/ CallGetSuccessOr
    \/ CallMatch
    \/ CallThenThen
    \/ CallThenTimes

Spec == Init /\ [][Next]_vars

(* ---- properties ---- *)

\* The calls that take a function argument and map the held value.
MapOps == {"Then", "Transform"}
\* The calls whose function argument returns a Result.
WithOps == {"ThenWith", "TransformWith"}

\* C1: every Result a chain of constructors and operators produces is in
\* exactly one state: IsFailure is the negation of IsSuccess, and IsSuccess
\* holds exactly when GetFailure is nil.
C1_ExactlyOneState ==
    \A i \in DOMAIN chain :
        /\ IsFailure(chain[i]) = ~IsSuccess(chain[i])
        /\ IsSuccess(chain[i]) <=> (GetFailure(chain[i]) = nil)

\* A chain of three Results holding both a Success and a Failure.
C1_Witness ==
    /\ Len(chain) >= 3
    /\ \E i, j \in DOMAIN chain : IsSuccess(chain[i]) /\ IsFailure(chain[j])

\* C2: Then, ThenWith, Transform and TransformWith on a Failure return a
\* Failure holding the receiver's error and never invoke f.
C2_ShortCircuit ==
    (call.op \in MapOps \cup WithOps /\ IsFailure(recv)) =>
        /\ IsFailure(ret)
        /\ GetFailure(ret) = GetFailure(recv)
        /\ invoked = <<>>

\* TransformWith was called on a Failure and changed the success type.
C2_Witness ==
    /\ call.op = "TransformWith"
    /\ IsFailure(recv)
    /\ TypeOf(ret) # TypeOf(recv)
    /\ GetFailure(ret) = GetFailure(recv)

\* C3: Success(v) is a Success holding v with a nil failure.
C3_Success ==
    call.op = "Success" =>
        /\ IsSuccess(ret)
        /\ ~IsFailure(ret)
        /\ GetSuccess(ret) = call.value
        /\ GetFailure(ret) = nil

\* Success was called with a value other than the zero value.
C3_Witness ==
    /\ call.op = "Success"
    /\ call.value # Zero(call.value.ty)
    /\ GetSuccess(ret) = call.value

\* C4: Failure(e) with a non-nil e is a Failure holding e.
C4_Failure ==
    (call.op = "Failure" /\ call.err # nil) =>
        /\ IsFailure(ret)
        /\ ~IsSuccess(ret)
        /\ GetFailure(ret) = call.err

\* Failure was called with a non-nil error.
C4_Witness ==
    /\ call.op = "Failure"
    /\ call.err \in Errors
    /\ GetFailure(ret) = call.err

\* C5: Then and Transform on a Success holding v invoke f exactly once, on
\* v, and return a Success holding f(v).
C5_MapOnSuccess ==
    (call.op \in MapOps /\ IsSuccess(recv)) =>
        /\ Len(invoked) = 1
        /\ invoked[1].arg = GetSuccess(recv)
        /\ IsSuccess(ret)
        /\ ~IsFailure(ret)
        /\ GetSuccess(ret) = invoked[1].out

\* Then was called on a Success and f returned a value other than v.
C5_Witness ==
    /\ call.op = "Then"
    /\ IsSuccess(recv)
    /\ Len(invoked) = 1
    /\ invoked[1].out # invoked[1].arg
    /\ GetSuccess(ret) = invoked[1].out

\* C6: ThenWith and TransformWith on a Success holding v invoke f once on v
\* and return the very Result f returned, a Success or a Failure.
C6_WithOnSuccess ==
    (call.op \in WithOps /\ IsSuccess(recv)) =>
        /\ Len(invoked) = 1
        /\ invoked[1].arg = GetSuccess(recv)
        /\ ret = invoked[1].out
        /\ IsSuccess(ret) = IsSuccess(invoked[1].out)
        /\ GetSuccess(ret) = GetSuccess(invoked[1].out)
        /\ GetFailure(ret) = GetFailure(invoked[1].out)

\* ThenWith was called on a Success and f returned a Failure.
C6_Witness ==
    /\ call.op = "ThenWith"
    /\ IsSuccess(recv)
    /\ Len(invoked) = 1
    /\ IsFailure(invoked[1].out)
    /\ ret = invoked[1].out

\* C7: ThenTry on a Failure holding e1 returns a Failure holding e1,
\* whatever value and err it is given.
C7_ThenTryShortCircuit ==
    (call.op = "ThenTry" /\ IsFailure(recv)) =>
        /\ IsFailure(ret)
        /\ GetFailure(ret) = GetFailure(recv)
        /\ GetSuccess(ret) = GetSuccess(recv)

\* ThenTry was called on a Failure with a non-zero value and another error.
C7_Witness ==
    /\ call.op = "ThenTry"
    /\ IsFailure(recv)
    /\ call.err # nil
    /\ call.err # GetFailure(recv)
    /\ call.value # Zero(TypeOf(recv))
    /\ GetFailure(ret) = GetFailure(recv)

\* C8: ThenTry on a Success is a Failure holding err when err is non-nil
\* and a Success holding the new value when err is nil; the receiver's old
\* value is not carried over.
C8_ThenTryOnSuccess ==
    (call.op = "ThenTry" /\ IsSuccess(recv)) =>
        IF call.err # nil
        THEN /\ IsFailure(ret)
             /\ GetFailure(ret) = call.err
             /\ GetSuccess(ret) = Zero(TypeOf(recv))
        ELSE /\ IsSuccess(ret)
             /\ GetFailure(ret) = nil
             /\ GetSuccess(ret) = call.value

\* ThenTry was called on a Success with a nil err and a value other than
\* the one the receiver holds.
C8_Witness ==
    /\ call.op = "ThenTry"
    /\ IsSuccess(recv)
    /\ call.err = nil
    /\ call.value # GetSuccess(recv)
    /\ GetSuccess(recv) # Zero(TypeOf(recv))
    /\ GetSuccess(ret) = call.value

\* C9: Try(v, err) is a Failure holding err when err is non-nil and a
\* Success holding v when err is nil.
C9_Try ==
    call.op = "Try" =>
        IF call.err # nil
        THEN IsFailure(ret) /\ GetFailure(ret) = call.err
        ELSE IsSuccess(ret) /\ GetSuccess(ret) = call.value

\* Try was called with a non-zero value and a non-nil error.
C9_Witness ==
    /\ call.op = "Try"
    /\ call.err # nil
    /\ call.value # Zero(call.value.ty)
    /\ IsFailure(ret)

\* C10: once a chain holds a Failure, every later Result of the chain is a
\* Failure holding the same error.
C10_FailureAbsorbing ==
    \A i, j \in DOMAIN chain :
        (i < j /\ IsFailure(chain[i])) =>
            /\ IsFailure(chain[j])
            /\ GetFailure(chain[j]) = GetFailure(chain[i])

\* A chain that started as a Success, failed in its first operator and went
\* through two more operators, the last one not ThenTry.
C10_Witness ==
    /\ Len(chain) >= 4
    /\ IsSuccess(chain[1])
    /\ IsFailure(chain[2])
    /\ call.op \in MapOps \cup WithOps
    /\ GetFailure(ret) = GetFailure(chain[2])

\* C11: every Result in Failure state that the constructors and operators
\* produce holds the zero value of its success type, and Transform and
\* TransformWith return a Result of the type they were asked for; a value
\* handed to Try or ThenTry next to an error, or held before the failing
\* step, is not kept.
C11_FailureHoldsZero ==
    /\ \A i \in DOMAIN chain :
           IsFailure(chain[i]) =>
               GetSuccess(chain[i]) \in {Zero(ty) : ty \in Types}
    /\ (call.op \in {"Transform", "TransformWith"}) => TypeOf(ret) = call.ty
    /\ (call.op \in {"Try", "ThenTry"} /\ IsFailure(ret)) =>
           GetSuccess(ret) = Zero(call.value.ty)

\* Try was given a non-zero value next to a non-nil error.
C11_Witness ==
    /\ call.op = "Try"
    /\ call.err # nil
    /\ call.value # Zero(call.value.ty)
    /\ IsFailure(ret)
    /\ GetSuccess(ret) = Zero(call.value.ty)

\* C12: GetSuccessOr and GetSuccessOrElse return the held value of a
\* Success and the default of a Failure, whatever the default is.
C12_GetSuccessOr ==
    (call.op \in {"GetSuccessOr", "GetSuccessOrElse"}) =>
        IF IsFailure(ret)
        THEN call.returned = call.default
        ELSE call.returned = GetSuccess(ret)

\* GetSuccessOrElse was called on a Failure with a default other than the
\* zero value.
C12_Witness ==
    /\ call.op = "GetSuccessOrElse"
    /\ IsFailure(ret)
    /\ call.default # Zero(TypeOf(ret))
    /\ call.returned = call.default

\* C13: one call of Match invokes exactly one callback, once: onSuccess
\* with the held value on a Success, onFailure with the held error on a
\* Failure.
C13_MatchDispatch ==
    call.op = "Match" =>
        /\ Len(invoked) = 1
        /\ IsSuccess(ret) =>
               invoked[1] = [cb |-> "onSuccess", arg |-> GetSuccess(ret)]
        /\ IsFailure(ret) =>
               invoked[1] = [cb |-> "onFailure", arg |-> GetFailure(ret)]

\* Match was called on a Success holding a non-zero value.
C13_Witness ==
    /\ call.op = "Match"
    /\ IsSuccess(ret)
    /\ GetSuccess(ret) # Zero(TypeOf(ret))
    /\ invoked = <<[cb |-> "onSuccess", arg |-> GetSuccess(ret)]>>

\* x -> g(f(x))
Compose(g, f) == [x \in DOMAIN f |-> g[f[x]]]

\* f applied n times to x.
RECURSIVE Iterate(_, _, _)
Iterate(f, n, x) == IF n = 0 THEN x ELSE Iterate(f, n - 1, f[x])

\* The identity function on the values of type ty.
Identity(ty) == [x \in Values(ty) |-> x]

\* C14: Success(v).Then(f).Then(g) is the Result of
\* Success(v).Then(x -> g(f(x))), namely Success(g(f(v))), and n calls
\* .Then(f) on Success(v) give Success of f applied n times to v.
C14_Composition ==
    /\ call.op = "ThenThen" =>
           /\ ret = Then(Success(call.value), Compose(call.g, call.f)).ret
           /\ IsSuccess(ret)
           /\ GetSuccess(ret) = call.g[call.f[call.value]]
    /\ call.op = "ThenTimes" =>
           /\ IsSuccess(ret)
           /\ GetSuccess(ret) = Iterate(call.f, call.n, call.value)
           /\ Len(invoked) = call.n

\* Success(v).Then(f).Then(g) was evaluated with f and g that do not
\* commute at v, and g(f(v)) is not v.
C14_Witness ==
    /\ call.op = "ThenThen"
    /\ call.g[call.f[call.value]] # call.f[call.g[call.value]]
    /\ call.g[call.f[call.value]] # call.value
    /\ GetSuccess(ret) = call.g[call.f[call.value]]

\* C15: Success(v).Then(identity) is Success(v): a Success holding v with a
\* nil failure.
C15_Identity ==
    (call.op = "ThenTimes" /\ call.n = 1
        /\ call.f = Identity(call.value.ty)) =>
        /\ ret = chain[1]
        /\ ret = Success(call.value)
        /\ IsSuccess(ret)
        /\ GetSuccess(ret) = call.value
        /\ GetFailure(ret) = nil

\* Success(v).Then(identity) was evaluated for a non-zero v.
C15_Witness ==
    /\ call.op = "ThenTimes"
    /\ call.n = 1
    /\ call.f = Identity(call.value.ty)
    /\ call.value # Zero(call.value.ty)
    /\ GetSuccess(ret) = call.value

\* The calls made on an existing Result: the chain operators and the
\* accessors.
OnResultOps ==
    {"Then", "ThenWith", "ThenTry", "Transform", "TransformWith",
     "IsSuccess", "IsFailure", "GetSuccess", "GetFailure",
     "GetSuccessOr", "GetSuccessOrElse", "Match"}

\* C16: a call of an operator or an accessor on a Result r leaves r as it
\* was: the state, the held value and the held error the caller observes on
\* r after the call are those from before the call.
C16_ReceiverUnchanged ==
    [][(call'.op \in OnResultOps) =>
          /\ chain'[Len(chain)] = chain[Len(chain)]
          /\ IsSuccess(chain'[Len(chain)]) = IsSuccess(chain[Len(chain)])
          /\ GetSuccess(chain'[Len(chain)]) = GetSuccess(chain[Len(chain)])
          /\ GetFailure(chain'[Len(chain)]) = GetFailure(chain[Len(chain)])
      ]_vars

\* ThenWith was called on a Success holding a non-zero value and returned a
\* Failure, and the receiver is still that Success.
C16_Witness ==
    /\ call.op = "ThenWith"
    /\ IsSuccess(recv)
    /\ GetSuccess(recv) # Zero(TypeOf(recv))
    /\ IsFailure(ret)
    /\ Len(invoked) = 1
    /\ invoked[1].arg = GetSuccess(recv)

\* C17: Failure(nil) is not a Failure: it is the Result Success(zero value)
\* is, with IsSuccess true, IsFailure false, a nil GetFailure and the zero
\* value as GetSuccess, and a Then or ThenWith called on it next invokes f
\* on the zero value.
C17_FailureNil ==
    [][/\ (call'.op = "Failure" /\ call'.err = nil) =>
              /\ IsSuccess(ret')
              /\ ~IsFailure(ret')
              /\ GetFailure(ret') = nil
              /\ GetSuccess(ret') = Zero(call'.ty)
              /\ ret' = Success(Zero(call'.ty))
       /\ (/\ call.op = "Failure"
           /\ call.err = nil
           /\ call'.op \in {"Then", "ThenWith"}) =>
              /\ Len(invoked') = 1
              /\ invoked'[1].arg = Zero(call.ty)
      ]_vars

\* Failure was called with a nil error.
C17_Witness ==
    /\ call.op = "Failure"
    /\ call.err = nil
    /\ IsSuccess(ret)
    /\ ret = Success(Zero(call.ty))

====
